---- MODULE Spec2Model ----
(***************************************************************************)
(* Model of the broadcast handler of go-sse (src/handler.go): the Handler  *)
(* struct, ServeHTTP run by one goroutine per connection, Send and Close.  *)
(* The mutex is explicit: taking it is one step, the critical section with *)
(* its unlock is the next.  Channels are Go channels: a buffer of capacity *)
(* cfg.ChannelBufferSize, a closed flag, and direct hand-off to a receiver *)
(* parked in select.  A panic ends the process.                            *)
(*                                                                         *)
(* The client (src/reader.go 227-382) is a second machine with variables   *)
(* of its own: the lifecycle goroutine of NewClient, the callers of Close, *)
(* the consumer of Events.  Spec runs the handler and leaves the client at *)
(* rest; ClientSpec runs the client against an arbitrary server and leaves *)
(* the handler at rest.                                                    *)
(*                                                                         *)
(* The Reader (src/reader.go 13-119) is a third machine, one record of     *)
(* state: the body on the wire, byte by byte, the bufio.Scanner with the   *)
(* split function scanLines, and the call of NextEvent with its locals.  A *)
(* byte is a one-character string and a line a sequence of bytes.          *)
(* ReaderSpec runs NextEvent on bodies made of the lines it tells apart,   *)
(* ScanSpec runs the scanner on arbitrary bytes cut into reads at any      *)
(* place, RoundTripSpec runs NextEvent on the bytes of one event           *)
(* (Event.Bytes, src/unnamed/part_003 61-73), ChunkSpec runs it on a whole *)
(* body cut into reads at any place, next to the same code reading the     *)
(* body in one piece (OnePiece); all four leave the handler and the client *)
(* at rest.                                                                *)
(***************************************************************************)
EXTENDS Integers, Sequences, FiniteSets, TLC

\* ---- bounds of the model ------------------------------------------------
\* calls made on the handler: connections accepted, Send calls, Close calls
MaxOps == 4
\* the largest ChannelBufferSize configured (next to 0, unbuffered, and 1)
MaxChannelBufferSize == 2
\* the largest NumEventsToKeep configured (next to 1)
MaxNumEventsToKeep == 2

\* the connections (one ServeHTTP goroutine and one channel each), named in
\* the order in which their requests arrive
Conns == {"c1", "c2"}
ArrivesBefore == {<<"c1", "c2">>}
\* Event.ID values passed to Send; "" is "no id"
EventIDs == {"", "a"}
\* Last-Event-ID request header values; "" is "no header"
LastEventIDs == {"", "a"}

\* ---- bounds and constants of the client model ---------------------------
\* requests the client sends (calls of c.client.Do that reach the server)
MaxRequests == 3
\* calls of reader.NextEvent that read something from a response body
MaxReads == 3
\* calls of Client.Close
MaxCloses == 2
\* defaultReconnectionTime, in milliseconds (reader.go 252)
DefaultReconnectionTime == 3000
\* values of an `id` field in a response body: <<>> is "no such field"
IdFields == {<<>>, <<"">>, <<"a">>, <<"b">>}
\* values of a `retry` field that strconv.Atoi accepts: <<>> is "no such field"
RetryFields == {<<>>, <<0>>, <<50>>}

Free == "free"
NoEvent == [n |-> 0, id |-> ""]
\* the event an InitFn returns: not one of the events passed to Send
InitEvent == [n |-> 0, id |-> "i"]
NoPanic == ""

VARIABLES
    cfg,          \* HandlerConfig: NumEventsToKeep, ChannelBufferSize, InitFn, FilterFn
    mutex,        \* Handler.mutex: Free, a connection, "Send" or "Close"
    waitGroup,    \* Handler.waitGroup counter
    eventQueue,   \* Handler.eventQueue, the replay window
    eventChans,   \* Handler.eventChans: the connections whose channel is a key of the map
    isClosed,     \* Handler.isClosed
    chanBuf,      \* per channel: the buffered events
    chanClosed,   \* per channel: close(c) was called
    pc,           \* per connection: position in ServeHTTP
    lastEventID,  \* per connection: the Last-Event-ID header
    endedBefore,  \* per connection: the serve routines that had ended when its request arrived
    events,       \* per connection: the local replay list `events`
    recv,         \* per connection: the local `e` received from the channel
    ctxDone,      \* per connection: r.Context().Done() was seen closed
    status,       \* per connection: response status written (0 none yet)
    written,      \* per connection: events written to w, <<kind, event>>
    sent,         \* the events of the Sends that returned, in order
    closePc,      \* the closer: "idle", or "wait" in h.waitGroup.Wait()
    closeReturns, \* number of Close calls that returned
    panicked      \* NoPanic, or the message of the panic that ended the process

VARIABLES
    clientPc,               \* the lifecycle goroutine: its position in lifecycleLoop / connectionLoop
    ctxCancelled,           \* ctx of NewClient is cancelled (c.cancel() or the parent context)
    clientLastEventID,      \* Client.lastEventID
    reconnectionTime,       \* Client.reconnectionTime, in milliseconds
    readerLastEventID,      \* Reader.LastEventID of the connection's reader
    readerReconnectionTime, \* Reader.ReconnectionTime of the connection's reader
    pendingEvent,           \* the local `e` of connectionLoop, <<>> when none
    eventChanClosed,        \* close(eventChan) has run: Events is closed
    closedChanClosed,       \* close(closedChan) has run
    received,               \* the events the consumer received from Events, in order
    dropped,                \* events parsed and then given up for <-ctx.Done()
    requests,               \* per request sent: its Last-Event-ID header, <<>> when absent
    respStatus,             \* the status of the last response: 0 (none), 200 or 204
    reads,                  \* NextEvent calls that read from a body
    clientClosePc,          \* the caller of Client.Close: "idle", or "wait" in <-c.closedChan
    clientCloseCalls,       \* calls of Client.Close begun
    clientCloseReturns,     \* calls of Client.Close that returned
    retrySeen               \* the last `retry` value the connection's reader parsed, <<>> when none

VARIABLE
    reader   \* a Reader with its scanner, the body it reads and the running call of NextEvent

\* the fields of reader
\* the bytes of the body the transport has not handed to the scanner yet
wire == reader.wire
\* what follows them: "open" (may be more), "EOF" or "err" (a read error)
wireEnd == reader.wireEnd
\* bufio.Scanner: the bytes read and not yet consumed, buf[start:end]
scanBuf == reader.scanBuf
\* bufio.Scanner: the sticky read error, "" (none), "EOF" or "err"
scanErr == reader.scanErr
\* Reader.LastEventID
LastEventID == reader.LastEventID
\* Reader.ReconnectionTime
ReconnectionTime == reader.ReconnectionTime
\* the caller of NextEvent: "idle" between calls, "scan" inside
readerPc == reader.readerPc
\* NextEvent: the locals eventType, eventData and eventID
eventType == reader.eventType
eventData == reader.eventData
eventID == reader.eventID
\* what the call of NextEvent returned, <<>> while it runs and before any
ret == reader.ret
\* calls of NextEvent begun
calls == reader.calls
\* what the event-stream format makes of the lines read so far
expect == reader.expect
\* the event whose Bytes() the body is, <<>> when the body is free text
serialized == reader.serialized
\* the whole body when it is given at the start, <<>> when it is written as it is read
body == reader.body

serverVars == <<cfg, mutex, waitGroup, eventQueue, eventChans, isClosed, chanBuf,
                chanClosed, pc, lastEventID, endedBefore, events, recv, ctxDone, status,
                written, sent, closePc, closeReturns, panicked>>

clientVars == <<clientPc, ctxCancelled, clientLastEventID, reconnectionTime,
                readerLastEventID, readerReconnectionTime, pendingEvent,
                eventChanClosed, closedChanClosed, received, dropped, requests,
                respStatus, reads, clientClosePc, clientCloseCalls, clientCloseReturns,
                retrySeen>>

readerVars == <<reader>>

vars == <<serverVars, clientVars, readerVars>>

handlerVars == <<waitGroup, eventQueue, eventChans, isClosed, chanBuf, chanClosed>>
connVars == <<pc, lastEventID, endedBefore, events, recv, ctxDone, status, written>>
closeVars == <<closePc, closeReturns>>

Running == panicked = NoPanic

\* the calls made so far: ServeHTTP, Send (returned or panicked), Close
Ops ==
    Cardinality({c \in Conns : pc[c] # "new"}) + Len(sent) + closeReturns
    + (IF closePc = "wait" THEN 1 ELSE 0) + (IF Running THEN 0 ELSE 1)

\* ---- pure helpers -------------------------------------------------------

\* mutant of SliceFrom: the slice starts one element late
SliceFromSkipping(s, from) == SubSeq(s, from + 1, Len(s))

\* s[from..Len(s)], Go's s[from-1:]
SliceFrom(s, from) == SubSeq(s, from, Len(s))

\* the last index i with q[i].id = id, 0 if none (handler.go 108-113, 1-based)
RECURSIVE LastEventIdx(_, _, _)
LastEventIdx(q, id, i) ==
    IF i = 0 THEN 0
    ELSE IF q[i].id = id THEN i
    ELSE LastEventIdx(q, id, i - 1)

\* mutant of ReplayBatch: an id that is not found replays nothing
ReplayBatchNothingWhenMissing(q, id) ==
    IF LastEventIdx(q, id, Len(q)) = 0 THEN <<>>
    ELSE SliceFrom(q, LastEventIdx(q, id, Len(q)) + 1)

\* events = append(events, h.eventQueue[lastEventIdx+1:]...)
ReplayBatch(q, id) == SliceFrom(q, LastEventIdx(q, id, Len(q)) + 1)

\* mutant of FilterPasses: the filter hook is never consulted
FilterPassesAll(c, e) == TRUE

\* h.cfg.FilterFn == nil || h.cfg.FilterFn(v, e), v being the value ConnectedFn
\* returned for the request of c; a FilterFn is nil, or the set of the
\* <<v, e.ID>> it rejects
FilterPasses(c, e) == cfg.FilterFn.nil \/ <<c, e.id>> \notin cfg.FilterFn.rejects

RECURSIVE Tagged(_, _, _)
Tagged(kind, c, es) ==
    IF es = <<>> THEN <<>>
    ELSE (IF FilterPasses(c, Head(es)) THEN << <<kind, Head(es)>> >> ELSE <<>>)
         \o Tagged(kind, c, Tail(es))

RECURSIVE TaggedAll(_, _)
TaggedAll(kind, es) ==
    IF es = <<>> THEN <<>> ELSE << <<kind, Head(es)>> >> \o TaggedAll(kind, Tail(es))

\* mutant of AppendToQueue: the window is trimmed one event too early
AppendToQueueTrimEarly(q, e) ==
    LET q1 == Append(q, e)
    IN IF Len(q1) >= cfg.NumEventsToKeep THEN Tail(q1) ELSE q1

\* h.eventQueue = append(h.eventQueue, e); trimmed by one when over NumEventsToKeep
AppendToQueue(q, e) ==
    LET q1 == Append(q, e)
    IN IF Len(q1) > cfg.NumEventsToKeep THEN Tail(q1) ELSE q1

\* a goroutine blocked in the select of the serve loop, ready to take a send
Parked(c) == pc[c] = "parked" /\ ~chanClosed[c]

\* mutant of CanSend: the buffer takes one event more than its capacity
CanSendOneMore(c) == Parked(c) \/ Len(chanBuf[c]) <= cfg.ChannelBufferSize

\* `case c <- e` of Send's select can proceed
CanSend(c) == Parked(c) \/ Len(chanBuf[c]) < cfg.ChannelBufferSize

\* ---- Init ---------------------------------------------------------------
\* configurations without hooks (InitFn and FilterFn nil): the small sizes in
\* every combination, and the largest ones together
PlainConfigs ==
    [NumEventsToKeep : {1, MaxNumEventsToKeep},
     ChannelBufferSize : {0, 1},
     InitFn : {<<>>},
     FilterFn : {[nil |-> TRUE, rejects |-> {}]}]
    \cup
    [NumEventsToKeep : {MaxNumEventsToKeep},
     ChannelBufferSize : {MaxChannelBufferSize},
     InitFn : {<<>>},
     FilterFn : {[nil |-> TRUE, rejects |-> {}]}]

\* configurations with hooks: InitFn returns one event, FilterFn rejects the
\* events without ID for the second connection and nothing for the first
HookConfigs ==
    [NumEventsToKeep : {MaxNumEventsToKeep},
     ChannelBufferSize : {0, 1},
     InitFn : {<<InitEvent>>},
     FilterFn : {[nil |-> FALSE, rejects |-> {<<"c2", "">>}]}]

\* reader.go 338-364: the client NewClient returns, its lifecycle goroutine
\* about to call connectionLoop for the first time
ClientStart ==
    /\ clientPc = "request"
    /\ ctxCancelled = FALSE
    /\ clientLastEventID = ""
    /\ reconnectionTime = DefaultReconnectionTime
    /\ readerLastEventID = ""
    /\ readerReconnectionTime = 0
    /\ pendingEvent = <<>>
    /\ eventChanClosed = FALSE
    /\ closedChanClosed = FALSE
    /\ received = <<>>
    /\ dropped = 0
    /\ requests = <<>>
    /\ respStatus = 0
    /\ reads = 0
    /\ clientClosePc = "idle"
    /\ clientCloseCalls = 0
    /\ clientCloseReturns = 0
    /\ retrySeen = <<>>

\* no reader exists: the state of the reader's variables in the
\* specifications of the handler and of the client
ReaderAtRest ==
    reader = [wire |-> <<>>, wireEnd |-> "open", scanBuf |-> <<>>, scanErr |-> "",
              LastEventID |-> <<>>, ReconnectionTime |-> 0, readerPc |-> "idle",
              eventType |-> <<>>, eventData |-> <<>>, eventID |-> <<>>, ret |-> <<>>,
              calls |-> 0, expect |-> <<>>, serialized |-> <<>>, body |-> <<>>]

\* handler.go 55-63: the handler NewHandler returns for one of the configurations
HandlerStart(configs) ==
    /\ cfg \in configs
    /\ mutex = Free
    /\ waitGroup = 0
    /\ eventQueue = <<>>
    /\ eventChans = {}
    /\ isClosed = FALSE
    /\ chanBuf = [c \in Conns |-> <<>>]
    /\ chanClosed = [c \in Conns |-> FALSE]
    /\ pc = [c \in Conns |-> "new"]
    /\ lastEventID = [c \in Conns |-> ""]
    /\ endedBefore = [c \in Conns |-> {}]
    /\ events = [c \in Conns |-> <<>>]
    /\ recv = [c \in Conns |-> NoEvent]
    /\ ctxDone = [c \in Conns |-> FALSE]
    /\ status = [c \in Conns |-> 0]
    /\ written = [c \in Conns |-> <<>>]
    /\ sent = <<>>
    /\ closePc = "idle"
    /\ closeReturns = 0
    /\ panicked = NoPanic

Init == HandlerStart(PlainConfigs) /\ ClientStart /\ ReaderAtRest

\* the handler configured with hooks
HookInit == HandlerStart(HookConfigs) /\ ClientStart /\ ReaderAtRest

\* ---- ServeHTTP ----------------------------------------------------------

\* handler.go 65-80: a request arrives with its Last-Event-ID; h.mutex.Lock()
RegisterLock(c) ==
    /\ Running
    /\ UNCHANGED <<clientVars, readerVars>>
    /\ pc[c] = "new"
    /\ \A d \in Conns : <<d, c>> \in ArrivesBefore => pc[d] # "new"
    /\ Ops < MaxOps
    /\ mutex = Free
    /\ \E id \in LastEventIDs : lastEventID' = [lastEventID EXCEPT ![c] = id]
    /\ endedBefore' = [endedBefore EXCEPT ![c] = {d \in Conns : pc[d] = "done"}]
    /\ mutex' = c
    /\ pc' = [pc EXCEPT ![c] = "register"]
    /\ UNCHANGED <<cfg, handlerVars, events, recv, ctxDone, status, written,
                   sent, closeVars, panicked>>

\* mutant of RejectsNew: a closed handler still registers new connections
RejectsNewNever == FALSE

\* handler.go 81: if h.isClosed
RejectsNew == isClosed

\* handler.go 81-94: rejected when closed, else registered; Unlock
Register(c) ==
    /\ Running
    /\ UNCHANGED <<clientVars, readerVars>>
    /\ pc[c] = "register"
    /\ mutex = c
    /\ IF RejectsNew
       THEN /\ pc' = [pc EXCEPT ![c] = "reject"]
            /\ UNCHANGED <<waitGroup, eventChans, chanBuf, chanClosed>>
       ELSE /\ waitGroup' = waitGroup + 1
            /\ eventChans' = eventChans \cup {c}
            /\ chanBuf' = [chanBuf EXCEPT ![c] = <<>>]
            /\ chanClosed' = [chanClosed EXCEPT ![c] = FALSE]
            /\ pc' = [pc EXCEPT ![c] = "headers"]
    /\ mutex' = Free
    /\ UNCHANGED <<cfg, eventQueue, isClosed, lastEventID, endedBefore, events, recv, ctxDone,
                   status, written, sent, closeVars, panicked>>

\* handler.go 83-88: http.Error(w, ..., 503); return
Reject(c) ==
    /\ Running
    /\ UNCHANGED <<clientVars, readerVars>>
    /\ pc[c] = "reject"
    /\ status' = [status EXCEPT ![c] = 503]
    /\ pc' = [pc EXCEPT ![c] = "done"]
    /\ UNCHANGED <<cfg, mutex, handlerVars, lastEventID, endedBefore, events, recv, ctxDone,
                   written, sent, closeVars, panicked>>

\* handler.go 96-103: the response headers, status 200
WriteHeaders(c) ==
    /\ Running
    /\ UNCHANGED <<clientVars, readerVars>>
    /\ pc[c] = "headers"
    /\ status' = [status EXCEPT ![c] = 200]
    /\ pc' = [pc EXCEPT ![c] = IF lastEventID[c] # "" THEN "lockReplay" ELSE "init"]
    /\ UNCHANGED <<cfg, mutex, handlerVars, lastEventID, endedBefore, events, recv, ctxDone,
                   written, sent, closeVars, panicked>>

\* handler.go 107: h.mutex.Lock() of the replay closure
ReplayLock(c) ==
    /\ Running
    /\ UNCHANGED <<clientVars, readerVars>>
    /\ pc[c] = "lockReplay"
    /\ mutex = Free
    /\ mutex' = c
    /\ pc' = [pc EXCEPT ![c] = "replay"]
    /\ UNCHANGED <<cfg, handlerVars, lastEventID, endedBefore, events, recv, ctxDone, status,
                   written, sent, closeVars, panicked>>

\* mutant of MutexAfterReplay: the mutex is still held while the batch is written
MutexHeldAfterReplay(c) == c

\* who holds the mutex when the replay closure has returned (defer Unlock, 106)
MutexAfterReplay(c) == Free

\* handler.go 108-115: the replay batch is computed; Unlock
ReplayCompute(c) ==
    /\ Running
    /\ UNCHANGED <<clientVars, readerVars>>
    /\ pc[c] = "replay"
    /\ mutex = c
    /\ events' = [events EXCEPT ![c] = ReplayBatch(eventQueue, lastEventID[c])]
    /\ mutex' = MutexAfterReplay(c)
    /\ pc' = [pc EXCEPT ![c] = "writeReplay"]
    /\ UNCHANGED <<cfg, handlerVars, lastEventID, endedBefore, recv, ctxDone, status, written,
                   sent, closeVars, panicked>>

\* handler.go 116-121: the batch is written (filtered) and flushed
WriteReplay(c) ==
    /\ Running
    /\ UNCHANGED <<clientVars, readerVars>>
    /\ pc[c] = "writeReplay"
    /\ written' = [written EXCEPT ![c] = @ \o Tagged("replay", c, events[c])]
    /\ events' = [events EXCEPT ![c] = <<>>]
    /\ pc' = [pc EXCEPT ![c] = "init"]
    /\ UNCHANGED <<cfg, mutex, handlerVars, lastEventID, endedBefore, recv, ctxDone,
                   status, sent, closeVars, panicked>>

\* mutant of InitEvents: the hook's events are dropped
InitEventsNone(c) == <<>>

\* handler.go 125-126: h.cfg.InitFn(v), nothing when InitFn is nil
InitEvents(c) == cfg.InitFn

\* handler.go 124-130: the events of InitFn are written (not filtered)
WriteInit(c) ==
    /\ Running
    /\ UNCHANGED <<clientVars, readerVars>>
    /\ pc[c] = "init"
    /\ written' = [written EXCEPT ![c] = @ \o TaggedAll("init", InitEvents(c))]
    /\ pc' = [pc EXCEPT ![c] = "select"]
    /\ UNCHANGED <<cfg, mutex, handlerVars, lastEventID, endedBefore, events, recv, ctxDone,
                   status, sent, closeVars, panicked>>

\* mutant of Dequeued: the newest buffered event is taken first
DequeuedNewest(buf) == buf[Len(buf)]

\* the element a receive takes from a buffered channel
Dequeued(buf) == Head(buf)

\* handler.go 135: a buffered event is received
RecvEvent(c) ==
    /\ Running
    /\ UNCHANGED <<clientVars, readerVars>>
    /\ pc[c] = "select"
    /\ chanBuf[c] # <<>>
    /\ recv' = [recv EXCEPT ![c] = Dequeued(chanBuf[c])]
    /\ chanBuf' = [chanBuf EXCEPT ![c] = Tail(@)]
    /\ pc' = [pc EXCEPT ![c] = "write"]
    /\ UNCHANGED <<cfg, mutex, waitGroup, eventQueue, eventChans, isClosed,
                   chanClosed, lastEventID, endedBefore, events, ctxDone, status, written,
                   sent, closeVars, panicked>>

\* handler.go 133-134: no case is ready, the goroutine blocks in select
Park(c) ==
    /\ Running
    /\ UNCHANGED <<clientVars, readerVars>>
    /\ pc[c] = "select"
    /\ chanBuf[c] = <<>>
    /\ ~chanClosed[c]
    /\ pc' = [pc EXCEPT ![c] = "parked"]
    /\ UNCHANGED <<cfg, mutex, handlerVars, lastEventID, endedBefore, events, recv, ctxDone,
                   status, written, sent, closeVars, panicked>>

\* handler.go 136-140: the channel is closed and drained; return (deferred Done)
RecvClosed(c) ==
    /\ Running
    /\ UNCHANGED <<clientVars, readerVars>>
    /\ pc[c] \in {"select", "parked"}
    /\ chanClosed[c]
    /\ chanBuf[c] = <<>>
    /\ waitGroup' = waitGroup - 1
    /\ pc' = [pc EXCEPT ![c] = "done"]
    /\ UNCHANGED <<cfg, mutex, eventQueue, eventChans, isClosed, chanBuf, chanClosed,
                   lastEventID, endedBefore, events, recv, ctxDone, status, written, sent,
                   closeVars, panicked>>

\* handler.go 141-144: the received event is written and flushed if it passes
WriteEvent(c) ==
    /\ Running
    /\ UNCHANGED <<clientVars, readerVars>>
    /\ pc[c] = "write"
    /\ written' = [written EXCEPT ![c] = @ \o Tagged("live", c, <<recv[c]>>)]
    /\ recv' = [recv EXCEPT ![c] = NoEvent]
    /\ pc' = [pc EXCEPT ![c] = "select"]
    /\ UNCHANGED <<cfg, mutex, handlerVars, lastEventID, endedBefore, events, ctxDone,
                   status, sent, closeVars, panicked>>

\* handler.go 145: the peer has gone away and the select takes the Done case.
\* Only this select reads the request context, so a cancellation is modelled
\* at the moment the select observes it
CtxDone(c) ==
    /\ Running
    /\ UNCHANGED <<clientVars, readerVars>>
    /\ pc[c] \in {"select", "parked"}
    /\ ctxDone' = [ctxDone EXCEPT ![c] = TRUE]
    /\ pc' = [pc EXCEPT ![c] = "lockDelete"]
    /\ UNCHANGED <<cfg, mutex, handlerVars, lastEventID, endedBefore, events, recv, status,
                   written, sent, closeVars, panicked>>

\* handler.go 134-140: the peer has gone away and the channel is closed and
\* drained: both cases of the select are ready, and it takes the channel's
RecvClosedCtxDone(c) ==
    /\ Running
    /\ UNCHANGED <<clientVars, readerVars>>
    /\ pc[c] \in {"select", "parked"}
    /\ chanClosed[c]
    /\ chanBuf[c] = <<>>
    /\ ctxDone' = [ctxDone EXCEPT ![c] = TRUE]
    /\ waitGroup' = waitGroup - 1
    /\ pc' = [pc EXCEPT ![c] = "done"]
    /\ UNCHANGED <<cfg, mutex, eventQueue, eventChans, isClosed, chanBuf, chanClosed,
                   lastEventID, endedBefore, events, recv, status, written, sent,
                   closeVars, panicked>>

\* handler.go 149: h.mutex.Lock() of the removal closure
DeleteLock(c) ==
    /\ Running
    /\ UNCHANGED <<clientVars, readerVars>>
    /\ pc[c] = "lockDelete"
    /\ mutex = Free
    /\ mutex' = c
    /\ pc' = [pc EXCEPT ![c] = "delete"]
    /\ UNCHANGED <<cfg, handlerVars, lastEventID, endedBefore, events, recv, ctxDone, status,
                   written, sent, closeVars, panicked>>

\* handler.go 148-152: delete(h.eventChans, eventChan); Unlock; return (Done)
Delete(c) ==
    /\ Running
    /\ UNCHANGED <<clientVars, readerVars>>
    /\ pc[c] = "delete"
    /\ mutex = c
    /\ eventChans' = eventChans \ {c}
    /\ mutex' = Free
    /\ waitGroup' = waitGroup - 1
    /\ pc' = [pc EXCEPT ![c] = "done"]
    /\ UNCHANGED <<cfg, eventQueue, isClosed, chanBuf, chanClosed, lastEventID, endedBefore,
                   events, recv, ctxDone, status, written, sent, closeVars,
                   panicked>>

\* ---- Send ---------------------------------------------------------------

\* mutant of SendTo: an event that does not fit is dropped, the subscriber kept
SendToDropping(S, e) ==
    /\ pc' = [c \in Conns |-> IF c \in S /\ Parked(c) THEN "write" ELSE pc[c]]
    /\ recv' = [c \in Conns |-> IF c \in S /\ Parked(c) THEN e ELSE recv[c]]
    /\ chanBuf' = [c \in Conns |->
                     IF c \in S /\ ~Parked(c) /\ CanSend(c)
                     THEN Append(chanBuf[c], e) ELSE chanBuf[c]]
    /\ UNCHANGED <<chanClosed, eventChans>>

\* handler.go 162-169 for the channels of S: hand-off, enqueue, or close and delete
SendTo(S, e) ==
    /\ pc' = [c \in Conns |-> IF c \in S /\ Parked(c) THEN "write" ELSE pc[c]]
    /\ recv' = [c \in Conns |-> IF c \in S /\ Parked(c) THEN e ELSE recv[c]]
    /\ chanBuf' = [c \in Conns |->
                     IF c \in S /\ ~Parked(c) /\ CanSend(c)
                     THEN Append(chanBuf[c], e) ELSE chanBuf[c]]
    /\ chanClosed' = [c \in Conns |-> IF c \in S /\ ~CanSend(c) THEN TRUE ELSE chanClosed[c]]
    /\ eventChans' = eventChans \ {c \in S : ~CanSend(c)}

\* handler.go 159-174: Lock, the loop over the map, the replay window, Unlock
Send(e) ==
    /\ Running
    /\ UNCHANGED <<clientVars, readerVars>>
    /\ mutex = Free
    /\ \A c \in eventChans : ~chanClosed[c]
    /\ SendTo(eventChans, e)
    /\ eventQueue' = AppendToQueue(eventQueue, e)
    /\ sent' = Append(sent, e)
    /\ UNCHANGED <<cfg, mutex, waitGroup, isClosed, lastEventID, endedBefore, events, ctxDone,
                   status, written, closeVars, panicked>>

\* handler.go 164: `c <- e` on a closed channel panics, after the loop has
\* handled any of the other channels (map order); the deferred Unlock runs
SendPanic(e) ==
    /\ Running
    /\ UNCHANGED <<clientVars, readerVars>>
    /\ mutex = Free
    /\ \E c \in eventChans : chanClosed[c]
    /\ \E S \in SUBSET {c \in eventChans : ~chanClosed[c]} : SendTo(S, e)
    /\ panicked' = "send on closed channel"
    /\ UNCHANGED <<cfg, mutex, waitGroup, eventQueue, isClosed, lastEventID, endedBefore, events,
                   ctxDone, status, written, sent, closeVars>>

\* a Send call with the next event: its n is its place in the order of the calls
SendCall ==
    /\ Ops < MaxOps
    /\ \E id \in EventIDs :
          LET e == [n |-> Len(sent) + 1, id |-> id]
          IN Send(e) \/ SendPanic(e)

\* ---- Close --------------------------------------------------------------

\* handler.go 177-183: Lock; every channel of the map is closed; isClosed; Unlock
CloseBody ==
    /\ Running
    /\ UNCHANGED <<clientVars, readerVars>>
    /\ closePc = "idle"
    /\ Ops < MaxOps
    /\ mutex = Free
    /\ \A c \in eventChans : ~chanClosed[c]
    /\ chanClosed' = [c \in Conns |-> IF c \in eventChans THEN TRUE ELSE chanClosed[c]]
    /\ isClosed' = TRUE
    /\ closePc' = "wait"
    /\ UNCHANGED <<cfg, mutex, waitGroup, eventQueue, eventChans, chanBuf, connVars,
                   sent, closeReturns, panicked>>

\* handler.go 180: close(c) of a closed channel panics; the mutex stays locked
ClosePanic ==
    /\ Running
    /\ UNCHANGED <<clientVars, readerVars>>
    /\ closePc = "idle"
    /\ Ops < MaxOps
    /\ mutex = Free
    /\ \E c \in eventChans : chanClosed[c]
    /\ \E S \in SUBSET {c \in eventChans : ~chanClosed[c]} :
          chanClosed' = [c \in Conns |-> IF c \in S THEN TRUE ELSE chanClosed[c]]
    /\ mutex' = "Close"
    /\ panicked' = "close of closed channel"
    /\ UNCHANGED <<cfg, waitGroup, eventQueue, eventChans, isClosed, chanBuf,
                   connVars, sent, closeVars>>

\* mutant of WaitReturns: Close does not wait for the serve routines
WaitReturnsAtOnce == TRUE

\* h.waitGroup.Wait() returns when the counter is zero
WaitReturns == waitGroup = 0

\* handler.go 184: h.waitGroup.Wait() returns, and Close with it
CloseWait ==
    /\ Running
    /\ UNCHANGED <<clientVars, readerVars>>
    /\ closePc = "wait"
    /\ WaitReturns
    /\ closePc' = "idle"
    /\ closeReturns' = closeReturns + 1
    /\ UNCHANGED <<cfg, mutex, handlerVars, connVars, sent, panicked>>

\* ---- the specification --------------------------------------------------
Next ==
    \/ \E c \in Conns : RegisterLock(c)
    \/ \E c \in Conns : Register(c)
    \/ \E c \in Conns : Reject(c)
    \/ \E c \in Conns : WriteHeaders(c)
    \/ \E c \in Conns : ReplayLock(c)
    \/ \E c \in Conns : ReplayCompute(c)
    \/ \E c \in Conns : WriteReplay(c)
    \/ \E c \in Conns : WriteInit(c)
    \/ \E c \in Conns : RecvEvent(c)
    \/ \E c \in Conns : Park(c)
    \/ \E c \in Conns : RecvClosed(c)
    \/ \E c \in Conns : WriteEvent(c)
    \/ \E c \in Conns : CtxDone(c)
    \/ \E c \in Conns : RecvClosedCtxDone(c)
    \/ \E c \in Conns : DeleteLock(c)
    \/ \E c \in Conns : Delete(c)
    \/ SendCall
    \/ CloseBody
    \/ ClosePanic
    \/ CloseWait

Spec == Init /\ [][Next]_vars

HookSpec == HookInit /\ [][Next]_vars

\* ---- the client: connectionLoop -----------------------------------------

\* mutant of LastEventIDHeader: the header is set on every request
LastEventIDHeaderAlways(id) == <<id>>

\* reader.go 279-281: the Last-Event-ID header of a request, <<>> when not set
LastEventIDHeader(id) == IF id # "" THEN <<id>> ELSE <<>>

\* mutant of IsCleanTermination: any response ends the lifecycle
IsCleanTerminationAny(code) == TRUE

\* reader.go 287: r.StatusCode == http.StatusNoContent
IsCleanTermination(code) == code = 204

\* mutant of FirstDeferred: close(eventChan) is skipped
FirstDeferredClosedChan == "closeClosed"

\* reader.go 320-321: the deferred call that runs first when lifecycleLoop returns
FirstDeferred == "closeEvents"

\* mutant of AfterConnection: a nil error is retried like any other
AfterConnectionRetry(err) == "backoff"

\* reader.go 323-326: lifecycleLoop returns when connectionLoop returned nil,
\* and goes to the select of the backoff otherwise
AfterConnection(err) == IF err = "nil" THEN FirstDeferred ELSE "backoff"

\* mutant of CommittedReconnectionTime: the reader's value is stored as it is
CommittedReconnectionTimeAlways(rt) == rt

\* reader.go 294-297: the reconnection time after the deferred function ran
CommittedReconnectionTime(rt) == IF rt # 0 THEN rt ELSE reconnectionTime

\* reader.go 292-298: the deferred function of connectionLoop, run on every
\* return once the reader exists, for a reader holding id and rt
Deferred(id, rt) ==
    /\ clientLastEventID' = id
    /\ reconnectionTime' = CommittedReconnectionTime(rt)

\* reader.go 275-285: the request is built and c.client.Do fails (no response)
DoError ==
    /\ clientPc = "request"
    /\ ~ctxCancelled
    /\ Len(requests) < MaxRequests
    /\ requests' = Append(requests, LastEventIDHeader(clientLastEventID))
    /\ respStatus' = 0
    /\ clientPc' = AfterConnection("err")
    /\ UNCHANGED <<serverVars, readerVars, retrySeen, ctxCancelled, clientLastEventID, reconnectionTime,
                   readerLastEventID, readerReconnectionTime, pendingEvent,
                   eventChanClosed, closedChanClosed, received, dropped, reads,
                   clientClosePc, clientCloseCalls, clientCloseReturns>>

\* reader.go 275-291: the request is built and answered with a status: 204
\* returns nil, any other status (200 here) gets a reader seeded with c.lastEventID
DoResponse(code) ==
    /\ clientPc = "request"
    /\ ~ctxCancelled
    /\ Len(requests) < MaxRequests
    /\ requests' = Append(requests, LastEventIDHeader(clientLastEventID))
    /\ respStatus' = code
    /\ IF IsCleanTermination(code)
       THEN /\ clientPc' = AfterConnection("nil")
            /\ UNCHANGED <<readerLastEventID, readerReconnectionTime>>
       ELSE /\ clientPc' = "read"
            /\ readerLastEventID' = clientLastEventID
            /\ readerReconnectionTime' = 0
    /\ retrySeen' = <<>>
    /\ UNCHANGED <<serverVars, readerVars, ctxCancelled, clientLastEventID, reconnectionTime,
                   pendingEvent, eventChanClosed, closedChanClosed, received, dropped, reads,
                   clientClosePc, clientCloseCalls, clientCloseReturns>>

\* reader.go 282-285: with ctx cancelled c.client.Do returns the context's
\* error and sends nothing
DoCancelled ==
    /\ clientPc = "request"
    /\ ctxCancelled
    /\ clientPc' = AfterConnection("err")
    /\ UNCHANGED <<serverVars, readerVars, retrySeen, ctxCancelled, clientLastEventID, reconnectionTime,
                   readerLastEventID, readerReconnectionTime, pendingEvent,
                   eventChanClosed, closedChanClosed, received, dropped, requests, respStatus,
                   reads, clientClosePc, clientCloseCalls, clientCloseReturns>>

\* what the body holds up to the point where NextEvent stops reading: an `id`
\* field or none, a `retry` field or none, `data` fields or none, and then a
\* blank line, the end of the body, or a read error
BodyBlocks ==
    [id : IdFields, retry : RetryFields, data : BOOLEAN, end : {"blank", "eof", "err"}]

\* reader.go 100-104: Reader.LastEventID after the fields of the block
LastEventIDAfter(b) == IF b.id # <<>> THEN b.id[1] ELSE readerLastEventID

\* reader.go 105-110: Reader.ReconnectionTime after the fields of the block
ReconnectionTimeAfter(b) == IF b.retry # <<>> THEN b.retry[1] ELSE readerReconnectionTime

\* reader.go 300-306 with Reader.NextEvent (66-119) for one block of the body:
\* an event when the block has data and ends in a blank line, nothing yet
\* when it has no data, and a return with an error (read error, or
\* errConnectionClosed at the end of the body) otherwise
NextEvent(b) ==
    /\ clientPc = "read"
    /\ reads < MaxReads
    /\ reads' = reads + 1
    /\ readerLastEventID' = LastEventIDAfter(b)
    /\ readerReconnectionTime' = ReconnectionTimeAfter(b)
    /\ retrySeen' = IF b.retry # <<>> THEN b.retry ELSE retrySeen
    /\ IF b.end = "blank"
       THEN /\ IF b.data
               THEN /\ pendingEvent' = <<[id |-> LastEventIDAfter(b)]>>
                    /\ clientPc' = "deliver"
               ELSE UNCHANGED <<pendingEvent, clientPc>>
            /\ UNCHANGED <<clientLastEventID, reconnectionTime>>
       ELSE /\ Deferred(LastEventIDAfter(b), ReconnectionTimeAfter(b))
            /\ clientPc' = AfterConnection("err")
            /\ UNCHANGED pendingEvent
    /\ UNCHANGED <<serverVars, readerVars, ctxCancelled, eventChanClosed, closedChanClosed,
                   received, dropped, requests, respStatus, clientClosePc, clientCloseCalls,
                   clientCloseReturns>>

\* reader.go 300-303: with ctx cancelled the read of the body fails
ReadCancelled ==
    /\ clientPc = "read"
    /\ ctxCancelled
    /\ Deferred(readerLastEventID, readerReconnectionTime)
    /\ clientPc' = AfterConnection("err")
    /\ UNCHANGED <<serverVars, readerVars, retrySeen, ctxCancelled, readerLastEventID, readerReconnectionTime,
                   pendingEvent, eventChanClosed, closedChanClosed, received, dropped, requests,
                   respStatus, reads, clientClosePc, clientCloseCalls,
                   clientCloseReturns>>

\* reader.go 308: `eventChan <- e` meets a receive of the consumer on Events
Receive ==
    /\ clientPc = "deliver"
    /\ received' = Append(received, pendingEvent[1])
    /\ pendingEvent' = <<>>
    /\ clientPc' = "read"
    /\ UNCHANGED <<serverVars, readerVars, retrySeen, dropped, ctxCancelled, clientLastEventID, reconnectionTime,
                   readerLastEventID, readerReconnectionTime, eventChanClosed,
                   closedChanClosed, requests, respStatus, reads, clientClosePc,
                   clientCloseCalls, clientCloseReturns>>

\* reader.go 309-310: the select takes <-ctx.Done(); the event is dropped
DeliverCancelled ==
    /\ clientPc = "deliver"
    /\ ctxCancelled
    /\ pendingEvent' = <<>>
    /\ dropped' = dropped + 1
    /\ Deferred(readerLastEventID, readerReconnectionTime)
    /\ clientPc' = AfterConnection("err")
    /\ UNCHANGED <<serverVars, readerVars, retrySeen, ctxCancelled, readerLastEventID, readerReconnectionTime,
                   eventChanClosed, closedChanClosed, received, requests, respStatus,
                   reads, clientClosePc, clientCloseCalls, clientCloseReturns>>

\* ---- the client: lifecycleLoop ------------------------------------------

\* mutant of AfterTimer: the lifecycle gives up when the timer fires
AfterTimerStop == FirstDeferred

\* reader.go 327 and 322-323: after the timer case the loop calls connectionLoop
AfterTimer == "request"

\* reader.go 327: the select takes <-time.After(c.reconnectionTime).  The
\* timer case can be ready together with the Done case (the timer fired
\* before the routine ran its select), and either may then be taken
TimerFires ==
    /\ clientPc = "backoff"
    /\ clientPc' = AfterTimer
    /\ UNCHANGED <<serverVars, readerVars, retrySeen, ctxCancelled, clientLastEventID, reconnectionTime,
                   readerLastEventID, readerReconnectionTime, pendingEvent,
                   eventChanClosed, closedChanClosed, received, dropped, requests, respStatus,
                   reads, clientClosePc, clientCloseCalls, clientCloseReturns>>

\* reader.go 328-329: the select takes <-ctx.Done(); lifecycleLoop returns
BackoffDone ==
    /\ clientPc = "backoff"
    /\ ctxCancelled
    /\ clientPc' = FirstDeferred
    /\ UNCHANGED <<serverVars, readerVars, retrySeen, ctxCancelled, clientLastEventID, reconnectionTime,
                   readerLastEventID, readerReconnectionTime, pendingEvent,
                   eventChanClosed, closedChanClosed, received, dropped, requests, respStatus,
                   reads, clientClosePc, clientCloseCalls, clientCloseReturns>>

\* reader.go 321: the deferred close(eventChan)
CloseEventChan ==
    /\ clientPc = "closeEvents"
    /\ eventChanClosed' = TRUE
    /\ clientPc' = "closeClosed"
    /\ UNCHANGED <<serverVars, readerVars, retrySeen, ctxCancelled, clientLastEventID, reconnectionTime,
                   readerLastEventID, readerReconnectionTime, pendingEvent,
                   closedChanClosed, received, dropped, requests, respStatus, reads,
                   clientClosePc, clientCloseCalls, clientCloseReturns>>

\* reader.go 320: the deferred close(closedChan); the goroutine ends
CloseClosedChan ==
    /\ clientPc = "closeClosed"
    /\ closedChanClosed' = TRUE
    /\ clientPc' = "stopped"
    /\ UNCHANGED <<serverVars, readerVars, retrySeen, ctxCancelled, clientLastEventID, reconnectionTime,
                   readerLastEventID, readerReconnectionTime, pendingEvent,
                   eventChanClosed, received, dropped, requests, respStatus, reads,
                   clientClosePc, clientCloseCalls, clientCloseReturns>>

\* ---- the client: Close and the context ----------------------------------

\* reader.go 379-380: a call of Close runs c.cancel()
ClientCloseCall ==
    /\ clientClosePc = "idle"
    /\ clientCloseCalls < MaxCloses
    /\ clientCloseCalls' = clientCloseCalls + 1
    /\ ctxCancelled' = TRUE
    /\ clientClosePc' = "wait"
    /\ UNCHANGED <<serverVars, readerVars, retrySeen, clientPc, clientLastEventID, reconnectionTime,
                   readerLastEventID, readerReconnectionTime, pendingEvent,
                   eventChanClosed, closedChanClosed, received, dropped, requests, respStatus,
                   reads, clientCloseReturns>>

\* mutant of ReceiveReturns: a receive on a closed channel blocks
ReceiveReturnsNever == FALSE

\* reader.go 381: <-c.closedChan returns once closedChan is closed (nothing is
\* ever sent on it)
ReceiveReturns == closedChanClosed

\* reader.go 381-382: the receive returns and Close with it
ClientCloseReturn ==
    /\ clientClosePc = "wait"
    /\ ReceiveReturns
    /\ clientClosePc' = "idle"
    /\ clientCloseReturns' = clientCloseReturns + 1
    /\ UNCHANGED <<serverVars, readerVars, retrySeen, clientPc, ctxCancelled, clientLastEventID,
                   reconnectionTime, readerLastEventID, readerReconnectionTime,
                   pendingEvent, eventChanClosed, closedChanClosed, received, dropped, requests,
                   respStatus, reads, clientCloseCalls>>

\* reader.go 346-350: ctx derives from cfg.Context, which its owner may cancel
ParentCancel ==
    /\ ~ctxCancelled
    /\ ctxCancelled' = TRUE
    /\ UNCHANGED <<serverVars, readerVars, retrySeen, clientPc, clientLastEventID, reconnectionTime,
                   readerLastEventID, readerReconnectionTime, pendingEvent,
                   eventChanClosed, closedChanClosed, received, dropped, requests, respStatus,
                   reads, clientClosePc, clientCloseCalls, clientCloseReturns>>

\* ---- the client's specifications ----------------------------------------
ClientInit == HandlerStart({CHOOSE c \in PlainConfigs : TRUE}) /\ ClientStart /\ ReaderAtRest

ClientNext ==
    \/ DoError
    \/ \E code \in {200, 204} : DoResponse(code)
    \/ DoCancelled
    \/ \E b \in BodyBlocks : NextEvent(b)
    \/ ReadCancelled
    \/ Receive
    \/ DeliverCancelled
    \/ TimerFires
    \/ BackoffDone
    \/ CloseEventChan
    \/ CloseClosedChan
    \/ ClientCloseCall
    \/ ClientCloseReturn
    \/ ParentCancel

ClientSpec == ClientInit /\ [][ClientNext]_vars

\* the steps the lifecycle goroutine takes on its own once it can: what a
\* cancelled context aborts, the timer, the select of the backoff, the
\* deferred calls.  A request that is not answered and a body that sends
\* nothing block it for as long as the context is not cancelled
LifecycleStep ==
    \/ DoCancelled
    \/ ReadCancelled
    \/ DeliverCancelled
    \/ TimerFires
    \/ BackoffDone
    \/ CloseEventChan
    \/ CloseClosedChan

\* the goroutine is scheduled when it can run, and a select with several
\* ready cases picks among them at random, so a case that is ready again and
\* again is taken in the end
ClientFairSpec ==
    /\ ClientSpec
    /\ WF_vars(LifecycleStep)
    /\ SF_vars(BackoffDone)
\* ---- the reader: bytes, lines and fields ---------------------------------
\* A byte is a one-character string, a []byte or string a sequence of bytes.
CR == "\r"
LF == "\n"
\* the byte 0x00
NUL == "NUL"

\* event.go 4-9
defaultMessageType == <<"m", "e", "s", "s", "a", "g", "e">>
fieldNameEvent == <<"e", "v", "e", "n", "t">>
fieldNameData == <<"d", "a", "t", "a">>
fieldNameID == <<"i", "d">>
fieldNameRetry == <<"r", "e", "t", "r", "y">>

\* data lines the server writes in one block at most
MaxDataLines == 2
\* calls of NextEvent
MaxCalls == 3

\* the lines of a response body: a blank line, data, id, event and retry
\* fields with and without a value, with a space after the colon, with a
\* NUL in an id, with a retry value that is no number, and a comment
BodyLines ==
    { <<>>,
      fieldNameData,
      fieldNameData \o <<":", " ", "x">>,
      fieldNameID,
      fieldNameID \o <<":", "1">>,
      fieldNameID \o <<":", "2", NUL>>,
      fieldNameEvent,
      fieldNameEvent \o <<":", "t">>,
      fieldNameRetry \o <<":", "1", "0">>,
      fieldNameRetry \o <<":", "$">>,
      <<":", "c">> }

\* what ends a line on the wire
Terminators == {<<CR>>, <<LF>>, <<CR, LF>>}

\* bytes.IndexAny / bytes.IndexRune: the zero-based index of the first byte
\* of s that is in set, -1 when there is none
IndexAny(s, set) ==
    IF \E i \in 1..Len(s) : s[i] \in set
    THEN (CHOOSE i \in 1..Len(s) :
             /\ s[i] \in set
             /\ \A j \in 1..(i - 1) : s[j] \notin set) - 1
    ELSE -1

\* bytes.Contains for a single byte
Contains(s, b) == \E i \in 1..Len(s) : s[i] = b

\* the Go slice s[from:to], zero-based, to excluded
Slice(s, from, to) == SubSeq(s, from + 1, to)

\* mutant of TerminatorLen: a \r always takes the byte after it along
TerminatorLenTwoAfterCR(data, eol) ==
    IF data[eol + 1] = CR /\ eol + 1 < Len(data) THEN 2 ELSE 1

\* reader.go 19 and 27-33: crlf, the length of the terminator found at eol
TerminatorLen(data, eol) ==
    IF data[eol + 1] = CR /\ eol + 1 < Len(data) /\ data[eol + 2] = LF THEN 2 ELSE 1

\* reader.go 13-35: scanLines, the split function of the scanner.  nil is
\* "token == nil": no token, the scanner reads more or stops
scanLines(data, atEOF) ==
    IF atEOF /\ Len(data) = 0
    THEN [advance |-> 0, token |-> <<>>, nil |-> TRUE]
    ELSE LET eol == IndexAny(data, {CR, LF})
         IN  IF eol = -1
             THEN IF atEOF
                  THEN [advance |-> Len(data), token |-> data, nil |-> FALSE]
                  ELSE [advance |-> 0, token |-> <<>>, nil |-> TRUE]
             ELSE [advance |-> eol + TerminatorLen(data, eol),
                   token |-> Slice(data, 0, eol),
                   nil |-> FALSE]

\* reader.go 84-94: the field name of a line
FieldOf(line) ==
    LET i == IndexAny(line, {":"})
    IN  IF i # -1 THEN Slice(line, 0, i) ELSE line

\* reader.go 84-94: the value of a line, without the one space after the colon
ValueOf(line) ==
    LET i == IndexAny(line, {":"})
        value == Slice(line, i + 1, Len(line))
    IN  IF i # -1
        THEN IF Len(value) # 0 /\ value[1] = " " THEN Tail(value) ELSE value
        ELSE <<>>

\* the decimal digits and their values
Digits == <<"0", "1", "2", "3", "4", "5", "6", "7", "8", "9">>
IsDigit(b) == \E i \in 1..10 : Digits[i] = b
DigitValue(b) == (CHOOSE i \in 1..10 : Digits[i] = b) - 1

RECURSIVE DecimalValue(_)
DecimalValue(ds) ==
    IF ds = <<>> THEN 0
    ELSE 10 * DecimalValue(SubSeq(ds, 1, Len(ds) - 1)) + DigitValue(ds[Len(ds)])

\* strconv.Atoi (reader.go 106): an optional sign and one or more decimal
\* digits; ok is "err == nil".  Values are far from the range of int
Atoi(v) ==
    LET signed == Len(v) # 0 /\ v[1] \in {"+", "-"}
        ds == IF signed THEN Tail(v) ELSE v
    IN  IF Len(ds) # 0 /\ \A i \in 1..Len(ds) : IsDigit(ds[i])
        THEN [ok |-> TRUE,
              i |-> IF signed /\ v[1] = "-" THEN 0 - DecimalValue(ds) ELSE DecimalValue(ds)]
        ELSE [ok |-> FALSE, i |-> 0]

\* strings.Join(eventData, "\n") (reader.go 116)
RECURSIVE Join(_)
Join(ss) ==
    IF Len(ss) = 0 THEN <<>>
    ELSE IF Len(ss) = 1 THEN ss[1]
    ELSE ss[1] \o <<LF>> \o Join(Tail(ss))

\* ---- the reader: what the format expects --------------------------------
\* the numeral of n, the way a server writes a retry value
RECURSIVE Numeral(_)
Numeral(n) ==
    IF n < 10 THEN <<Digits[n + 1]>>
    ELSE Numeral(n \div 10) \o <<Digits[(n % 10) + 1]>>

\* the retry values a server sends
RetryValues == 0..20
IsInteger(v) == \E n \in RetryValues : Numeral(n) = v
IntegerOf(v) == CHOOSE n \in RetryValues : Numeral(n) = v

\* the fields of a block by the rules of the format: the event type set in
\* the block (<<>> when none), its data values, and the sticky id and
\* reconnection time of the session
ExpectedStart(seed) == [type |-> <<>>, data |-> <<>>, id |-> seed, retry |-> 0]

\* the effect of one more line: a blank line ends the block, a comment
\* changes nothing, a field is taken by its name
ExpectedAfter(x, line) ==
    IF line = <<>> THEN [x EXCEPT !.type = <<>>, !.data = <<>>]
    ELSE IF line[1] = ":" THEN x
    ELSE LET name == FieldOf(line)
             value == ValueOf(line)
         IN  CASE name = fieldNameEvent -> [x EXCEPT !.type = <<value>>]
               [] name = fieldNameData -> [x EXCEPT !.data = Append(@, value)]
               [] name = fieldNameID ->
                      IF Contains(value, NUL) THEN x ELSE [x EXCEPT !.id = value]
               [] name = fieldNameRetry ->
                      IF IsInteger(value) THEN [x EXCEPT !.retry = IntegerOf(value)] ELSE x
               [] OTHER -> x

\* the event a blank line dispatches for the block, <<>> when it has no data
ExpectedEvent(x) ==
    IF x.data = <<>> THEN <<>>
    ELSE <<[Type |-> IF x.type = <<>> THEN defaultMessageType ELSE x.type[1],
            Data |-> Join(x.data),
            ID |-> x.id]>>

\* ---- the reader: bufio.Scanner -------------------------------------------
\* bufio.Scanner.Scan calls the split function when it holds data or has
\* seen the end of the input
CanSplit == Len(scanBuf) > 0 \/ scanErr # ""
Split == scanLines(scanBuf, scanErr # "")
HasToken == CanSplit /\ ~Split.nil

\* ---- the reader: the body on the wire ------------------------------------
IsDataLine(l) == l # <<>> /\ l[1] # ":" /\ FieldOf(l) = fieldNameData

\* the scanner waits in a read of the body: it holds no token, has seen no
\* error, and the transport has nothing for it
Waiting == readerPc = "scan" /\ ~HasToken /\ scanErr = "" /\ wire = <<>>

\* the server writes a line and its terminator, and the transport holds them
\* until the scanner reads.  What is written before the reader asks for it
\* is read no differently, so the body is written as the reader waits for it
WriteLine(l, t) ==
    /\ Waiting
    /\ wireEnd = "open"
    /\ IsDataLine(l) => Len(eventData) < MaxDataLines
    /\ reader' = [reader EXCEPT !.wire = l \o t]
    /\ UNCHANGED <<serverVars, clientVars>>

\* the body ends, after a last line without a terminator (or none), with the
\* end of the stream or with a read error
EndOfBody(l, end) ==
    /\ Waiting
    /\ wireEnd = "open"
    /\ IsDataLine(l) => Len(eventData) < MaxDataLines
    /\ reader' = [reader EXCEPT !.wire = l, !.wireEnd = end]
    /\ UNCHANGED <<serverVars, clientVars>>

\* bytes the scanner holds and is handed at most, in ScanSpec
MaxScanned == 4

\* the server writes any bytes, lines or not
WriteBytes(bs) ==
    /\ Waiting
    /\ wireEnd = "open"
    /\ Len(scanBuf) + Len(bs) <= MaxScanned
    /\ reader' = [reader EXCEPT !.wire = bs]
    /\ UNCHANGED <<serverVars, clientVars>>

\* ---- the reader: NextEvent ------------------------------------------------
\* reader.go 67-71: a call of NextEvent begins
NextEventCall ==
    /\ readerPc = "idle"
    /\ calls < MaxCalls
    /\ reader' = [reader EXCEPT !.calls = calls + 1,
                                 !.readerPc = "scan",
                                 !.eventType = defaultMessageType,
                                 !.eventData = <<>>,
                                 !.eventID = LastEventID,
                                 !.ret = <<>>]
    /\ UNCHANGED <<serverVars, clientVars>>

\* reader.go 74 (bufio.Scanner.Scan): no token in the buffer and no error
\* yet, the scanner reads; the transport hands over some of its bytes
Read(k) ==
    /\ readerPc = "scan"
    /\ ~HasToken
    /\ scanErr = ""
    /\ k \in 1..Len(wire)
    /\ reader' = [reader EXCEPT !.scanBuf = scanBuf \o SubSeq(wire, 1, k),
                                 !.wire = SubSeq(wire, k + 1, Len(wire))]
    /\ UNCHANGED <<serverVars, clientVars>>

\* reader.go 74 (bufio.Scanner.Scan): the read returns io.EOF or an error
ReadEnd ==
    /\ readerPc = "scan"
    /\ ~HasToken
    /\ scanErr = ""
    /\ wire = <<>>
    /\ wireEnd # "open"
    /\ reader' = [reader EXCEPT !.scanErr = wireEnd]
    /\ UNCHANGED <<serverVars, clientVars>>

\* mutant of IdAccepted: an id with a NUL is taken like any other
IdAcceptedAlways(value) == TRUE

\* reader.go 101: !bytes.Contains(value, []byte{'\x00'})
IdAccepted(value) == ~Contains(value, NUL)

\* mutant of RetryAfter: the result of Atoi is stored whether it failed or not
RetryAfterUnchecked(value, old) == Atoi(value).i

\* reader.go 106-110: Reader.ReconnectionTime after a retry field
RetryAfter(value, old) == IF ~Atoi(value).ok THEN old ELSE Atoi(value).i

\* reader.go 81-83 and 95: the field a line sets, "" for a comment and for a
\* name that is none of the four
FieldSet(line) ==
    IF line[1] = ":" THEN ""
    ELSE CASE FieldOf(line) = fieldNameEvent -> "event"
           [] FieldOf(line) = fieldNameData -> "data"
           [] FieldOf(line) = fieldNameID -> "id"
           [] FieldOf(line) = fieldNameRetry -> "retry"
           [] OTHER -> ""

\* the value NextEvent returns: an event, or neither event nor error, or an error
ReturnEvent(type, data, id) == [kind |-> "event", Type |-> type, Data |-> data, ID |-> id]
ReturnNil == [kind |-> "nil", Type |-> <<>>, Data |-> <<>>, ID |-> <<>>]
ReturnErr == [kind |-> "err", Type |-> <<>>, Data |-> <<>>, ID |-> <<>>]

\* reader.go 72-119: Scan returns a line.  A blank line ends the inner loop:
\* with data collected NextEvent returns the event, without it the outer loop
\* goes on with its locals as they are.  Any other line is a comment or a
\* field, and the inner loop goes on
ScanLine ==
    /\ readerPc = "scan"
    /\ HasToken
    /\ LET line == Split.token
           f == FieldSet(line)
           value == ValueOf(line)
           rest == Slice(scanBuf, Split.advance, Len(scanBuf))
           read == ExpectedAfter(expect, line)
       IN  IF Len(line) = 0
           THEN IF Len(eventData) = 0
                THEN reader' = [reader EXCEPT !.scanBuf = rest, !.expect = read]
                ELSE reader' = [reader EXCEPT
                         !.scanBuf = rest,
                         !.expect = read,
                         !.ret = <<ReturnEvent(eventType, Join(eventData), eventID)>>,
                         !.readerPc = "idle",
                         !.eventType = <<>>,
                         !.eventData = <<>>,
                         !.eventID = <<>>]
           ELSE reader' = [reader EXCEPT
                    !.scanBuf = rest,
                    !.expect = read,
                    !.eventType = IF f = "event" THEN value ELSE eventType,
                    !.eventData = IF f = "data" THEN Append(eventData, value) ELSE eventData,
                    !.eventID = IF f = "id" /\ IdAccepted(value) THEN value ELSE eventID,
                    !.LastEventID =
                        IF f = "id" /\ IdAccepted(value) THEN value ELSE LastEventID,
                    !.ReconnectionTime =
                        IF f = "retry" THEN RetryAfter(value, ReconnectionTime)
                        ELSE ReconnectionTime]
    /\ UNCHANGED <<serverVars, clientVars>>

\* mutant of EndReturn: at the end of the body the data collected is returned
EndReturnFlush(err, type, data, id) ==
    IF Len(data) # 0 THEN ReturnEvent(type, Join(data), id)
    ELSE IF err = "EOF" THEN ReturnNil ELSE ReturnErr

\* reader.go 74-76: `return nil, r.scanner.Err()`; Err() is nil for io.EOF
EndReturn(err, type, data, id) == IF err = "EOF" THEN ReturnNil ELSE ReturnErr

\* reader.go 74-76: Scan returns false; the scanner has seen the end of the
\* input and split found no token in what is left
ScanEnd ==
    /\ readerPc = "scan"
    /\ ~HasToken
    /\ scanErr # ""
    /\ reader' = [reader EXCEPT
                      !.ret = <<EndReturn(scanErr, eventType, eventData, eventID)>>,
                      !.readerPc = "idle",
                      !.scanBuf = <<>>,
                      !.eventType = <<>>,
                      !.eventData = <<>>,
                      !.eventID = <<>>]
    /\ UNCHANGED <<serverVars, clientVars>>

\* ---- the reader's specifications ------------------------------------------
\* ids a reader is seeded with (reader.go 291)
SeedIDs == {<<>>, <<"0">>}

\* reader.go 55-61: NewReader on a body of which nothing is written yet
ReaderStart(seed) ==
    reader = [wire |-> <<>>, wireEnd |-> "open", scanBuf |-> <<>>, scanErr |-> "",
              LastEventID |-> seed, ReconnectionTime |-> 0, readerPc |-> "idle",
              eventType |-> <<>>, eventData |-> <<>>, eventID |-> <<>>, ret |-> <<>>,
              calls |-> 0, expect |-> ExpectedStart(seed), serialized |-> <<>>, body |-> <<>>]

ReaderInit ==
    /\ HandlerStart({CHOOSE c \in PlainConfigs : TRUE})
    /\ ClientStart
    /\ \E seed \in SeedIDs : ReaderStart(seed)

\* the reads of ReaderSpec: the transport hands over all it holds, or all
\* but the last byte (the terminator, or the \n of a \r\n)
TailCuts == {Len(wire) - 1, Len(wire)}

ReaderNext ==
    \/ \E l \in BodyLines, t \in Terminators : WriteLine(l, t)
    \/ \E l \in BodyLines, end \in {"EOF", "err"} : EndOfBody(l, end)
    \/ NextEventCall
    \/ \E k \in TailCuts : Read(k)
    \/ ReadEnd
    \/ ScanLine
    \/ ScanEnd

ReaderSpec == ReaderInit /\ [][ReaderNext]_vars

\* the scanner on arbitrary bytes, cut into reads at any place
ScanBytes == {CR, LF, "x"}
ByteStrings == UNION {[1..n -> ScanBytes] : n \in 1..(MaxScanned - 1)}

ScanNext ==
    \/ \E bs \in ByteStrings : WriteBytes(bs)
    \/ \E end \in {"EOF", "err"} : EndOfBody(<<>>, end)
    \/ NextEventCall
    \/ \E k \in 1..Len(wire) : Read(k)
    \/ ReadEnd
    \/ ScanLine
    \/ ScanEnd

ScanSpec == ReaderInit /\ [][ScanNext]_vars

\* ---- Event.Bytes and the round trip through the reader --------------------
\* unnamed/part_003 61-73: Event.Bytes
Bytes(e) ==
    (IF e.Type # <<>> THEN fieldNameEvent \o <<":">> \o e.Type \o <<CR>> ELSE <<>>)
    \o (IF e.ID # <<>> THEN fieldNameID \o <<":">> \o e.ID \o <<CR>> ELSE <<>>)
    \o fieldNameData \o <<":">> \o e.Data \o <<CR, CR>>

\* events without line breaks in their fields, their Type set (an event
\* without Type is written without an event field)
SerializedEvents ==
    [Type : {<<"t">>, <<"u">>}, ID : {<<>>, <<"1">>}, Data : {<<>>, <<"x">>, <<" ", "x">>}]

\* a new reader on a body that is the bytes of one event, the body ended or
\* still open after them
RoundTripInit ==
    /\ HandlerStart({CHOOSE c \in PlainConfigs : TRUE})
    /\ ClientStart
    /\ \E e \in SerializedEvents, end \in {"open", "EOF"} :
          reader = [wire |-> Bytes(e), wireEnd |-> end, scanBuf |-> <<>>, scanErr |-> "",
                    LastEventID |-> <<>>, ReconnectionTime |-> 0, readerPc |-> "idle",
                    eventType |-> <<>>, eventData |-> <<>>, eventID |-> <<>>,
                    ret |-> <<>>, calls |-> 0, expect |-> ExpectedStart(<<>>),
                    serialized |-> <<e>>, body |-> <<>>]

RoundTripNext ==
    \/ NextEventCall
    \/ \E k \in 1..Len(wire) : Read(k)
    \/ ReadEnd
    \/ ScanLine
    \/ ScanEnd

RoundTripSpec == RoundTripInit /\ [][RoundTripNext]_vars

\* ---- the reader on one body, read whole and cut into reads ---------------
\* lines of the bodies of ChunkSpec, and the most lines a body has
ChunkLines ==
    { <<>>,
      fieldNameData \o <<":", "x">>,
      fieldNameID \o <<":", "1">>,
      fieldNameRetry \o <<":", "1", "0">> }
MaxBodyLines == 3

RECURSIVE BodiesOf(_)
BodiesOf(n) ==
    IF n = 0 THEN {<<>>}
    ELSE {l \o t \o b : l \in ChunkLines, t \in Terminators, b \in BodiesOf(n - 1)}

ChunkBodies == UNION {BodiesOf(n) : n \in 1..MaxBodyLines}

\* reader.go 74 and 77 (bufio.Scanner.Scan, Bytes) on data the scanner holds
\* whole after one read: the tokens split finds in it, and those it finds in
\* what is left once the next read has returned the end of the input
RECURSIVE LinesOf(_, _)
LinesOf(data, atEOF) ==
    IF Len(data) = 0 THEN <<>>
    ELSE LET s == scanLines(data, atEOF)
         IN  IF s.nil
             THEN IF atEOF THEN <<>> ELSE LinesOf(data, TRUE)
             ELSE <<s.token>> \o LinesOf(Slice(data, s.advance, Len(data)), atEOF)

\* reader.go 67-71: the reader and the locals as a call of NextEvent begins,
\* with the events the calls before it returned
CallStart(last, time, out) ==
    [eventType |-> defaultMessageType, eventData |-> <<>>, eventID |-> last,
     LastEventID |-> last, ReconnectionTime |-> time, out |-> out]

\* reader.go 72-119: the reader and the locals after one more line; on a
\* blank line after data the call returns its event and the next call begins
AfterLine(st, line) ==
    IF Len(line) = 0
    THEN IF Len(st.eventData) = 0
         THEN st
         ELSE CallStart(st.LastEventID, st.ReconnectionTime,
                        Append(st.out,
                               ReturnEvent(st.eventType, Join(st.eventData), st.eventID)))
    ELSE LET f == FieldSet(line)
             value == ValueOf(line)
         IN  [st EXCEPT
                 !.eventType = IF f = "event" THEN value ELSE @,
                 !.eventData = IF f = "data" THEN Append(@, value) ELSE @,
                 !.eventID = IF f = "id" /\ IdAccepted(value) THEN value ELSE @,
                 !.LastEventID = IF f = "id" /\ IdAccepted(value) THEN value ELSE @,
                 !.ReconnectionTime = IF f = "retry" THEN RetryAfter(value, @) ELSE @]

RECURSIVE AfterLines(_, _)
AfterLines(st, lines) ==
    IF lines = <<>> THEN st ELSE AfterLines(AfterLine(st, Head(lines)), Tail(lines))

\* NextEvent called until it returns no event, on a new Reader whose first
\* read returns all of bytes
OnePiece(bytes) == AfterLines(CallStart(<<>>, 0, <<>>), LinesOf(bytes, FALSE))

\* a new reader on a body the server has sent whole and ended
ChunkInit ==
    /\ HandlerStart({CHOOSE c \in PlainConfigs : TRUE})
    /\ ClientStart
    /\ \E b \in ChunkBodies, end \in {"EOF", "err"} :
          reader = [wire |-> b, wireEnd |-> end, scanBuf |-> <<>>, scanErr |-> "",
                    LastEventID |-> <<>>, ReconnectionTime |-> 0, readerPc |-> "idle",
                    eventType |-> <<>>, eventData |-> <<>>, eventID |-> <<>>,
                    ret |-> <<>>, calls |-> 0, expect |-> ExpectedStart(<<>>),
                    serialized |-> <<>>, body |-> b]

\* the transport cuts the body into reads at any place
ChunkNext ==
    \/ NextEventCall
    \/ \E k \in 1..Len(wire) : Read(k)
    \/ ReadEnd
    \/ ScanLine
    \/ ScanEnd

ChunkSpec == ChunkInit /\ [][ChunkNext]_vars

\* ---- the claims ----------------------------------------------------------

\* the connections ServeHTTP has registered (now or earlier)
WasRegistered(c) == pc[c] \notin {"new", "register", "reject"} /\ status[c] # 503

\* the subscribers Send can still reach: in the map, queue not closed
Active == {c \in eventChans : ~chanClosed[c]}

\* this step is a Send that returned; its event is the last of sent'
IsSend == sent' # sent
SentNow == sent'[Len(sent')]

\* in this step c got e: appended to its queue, or handed to its blocked receive
Delivered(c, e) ==
    \/ chanBuf'[c] = Append(chanBuf[c], e) /\ recv'[c] = recv[c]
    \/ pc[c] = "parked" /\ pc'[c] = "write" /\ recv'[c] = e /\ chanBuf'[c] = chanBuf[c]

\* in this step c was evicted: queue closed, removed from the map, nothing added
Evicted(c) ==
    /\ chanClosed'[c]
    /\ c \notin eventChans'
    /\ chanBuf'[c] = chanBuf[c]
    /\ recv'[c] = recv[c]

LiveIdx(c) == {i \in 1..Len(written[c]) : written[c][i][1] = "live"}
ReplayIdx(c) == {i \in 1..Len(written[c]) : written[c][i][1] = "replay"}

\* C1: on every connection the live events written are events that were sent,
\* in the order of their Sends, and no replayed event is written after a live one
C1_LiveInSendOrderAfterReplay ==
    \A c \in Conns :
        /\ \A i \in LiveIdx(c) :
              /\ written[c][i][2].n \in 1..Len(sent)
              /\ written[c][i][2] = sent[written[c][i][2].n]
        /\ \A i, j \in LiveIdx(c) : i < j => written[c][i][2].n < written[c][j][2].n
        /\ \A i \in ReplayIdx(c), j \in LiveIdx(c) : i < j

C1_Witness ==
    \E c \in Conns :
        /\ Len(written[c]) = 3
        /\ written[c][1][1] = "replay"
        /\ written[c][2][1] = "live"
        /\ written[c][3][1] = "live"

\* C2 as stated: on Send(e) every active subscriber with free queue capacity
\* gets e, and every active subscriber whose queue holds N = ChannelBufferSize
\* events is evicted
C2_FullQueueAlwaysEvicted ==
    [][IsSend =>
        \A c \in Active :
            IF Len(chanBuf[c]) < cfg.ChannelBufferSize
            THEN Delivered(c, SentNow) /\ c \in eventChans' /\ ~chanClosed'[c]
            ELSE Evicted(c)]_vars

\* C2 amended: on Send(e) every active subscriber that is blocked receiving or
\* has free queue capacity gets e and stays; every other one holds exactly N
\* unread events and is evicted (so one that takes nothing is evicted by the
\* (N+1)-th Send, not earlier)
C2_DeliveredOrEvictedWhenFull ==
    [][IsSend =>
        \A c \in Active :
            IF pc[c] = "parked" \/ Len(chanBuf[c]) < cfg.ChannelBufferSize
            THEN Delivered(c, SentNow) /\ c \in eventChans' /\ ~chanClosed'[c]
            ELSE Len(chanBuf[c]) = cfg.ChannelBufferSize /\ Evicted(c)]_vars

C2_Witness ==
    \E c, d \in Conns :
        /\ cfg.ChannelBufferSize = 1
        /\ Len(sent) = 2
        /\ chanClosed[c] /\ c \notin eventChans /\ ~isClosed
        /\ chanBuf[c] = <<sent[1]>>
        /\ d \in Active
        /\ chanBuf[d] = <<sent[2]>>

\* C3: Send never waits for a subscriber or a peer: whenever the mutex is free
\* a Send call can run to its end whatever the queues hold, and the mutex is
\* only ever held by a serve routine inside one of its three critical
\* sections, none of which writes to the peer, and whose end is always enabled
C3_SendNeverBlocked ==
    /\ mutex \in {Free, "Close"} \cup Conns
    /\ mutex = "Close" => ~Running
    /\ \A c \in Conns :
          mutex = c =>
              /\ pc[c] \in {"register", "replay", "delete"}
              /\ Running => ENABLED (Register(c) \/ ReplayCompute(c) \/ Delete(c))
    /\ (Running /\ mutex = Free /\ Ops < MaxOps) => ENABLED SendCall

C3_Witness ==
    \E c, d \in Conns :
        /\ c # d
        /\ pc[c] = "writeReplay"
        /\ d \in Active
        /\ cfg.ChannelBufferSize = 1
        /\ Len(chanBuf[d]) = 1
        /\ pc[d] = "headers"
        /\ mutex = Free
        /\ Ops < MaxOps

\* C4: the replay window is the last min(n, K) events sent, in send order
C4_WindowIsLastK ==
    LET n == Len(sent)
        m == IF n < cfg.NumEventsToKeep THEN n ELSE cfg.NumEventsToKeep
    IN /\ Len(eventQueue) <= cfg.NumEventsToKeep
       /\ eventQueue = SubSeq(sent, n - m + 1, n)

C4_Witness ==
    /\ cfg.NumEventsToKeep = 1
    /\ Len(sent) = 3
    /\ eventQueue = <<sent[3]>>

MatchIdx(q, id) == {i \in 1..Len(q) : q[i].id = id}
MaxOf(S) == CHOOSE i \in S : \A j \in S : j <= i

\* C5: the replay batch of a connection presenting X is the window after the
\* (last) entry with ID X, or the whole window when no entry has ID X; a
\* connection presenting no Last-Event-ID computes and writes no replay
C5_ReplayAfterMatchOrWholeWindow ==
    /\ [][\A c \in Conns :
            (pc[c] = "replay" /\ pc'[c] # "replay") =>
                /\ pc'[c] = "writeReplay"
                /\ lastEventID[c] # ""
                /\ IF MatchIdx(eventQueue, lastEventID[c]) # {}
                   THEN events'[c] = SubSeq(eventQueue,
                                            MaxOf(MatchIdx(eventQueue, lastEventID[c])) + 1,
                                            Len(eventQueue))
                   ELSE events'[c] = eventQueue]_vars
    /\ [](\A c \in Conns :
            lastEventID[c] = "" =>
                /\ pc[c] \notin {"lockReplay", "replay", "writeReplay"}
                /\ events[c] = <<>>
                /\ ReplayIdx(c) = {})

C5_Witness ==
    \E c \in Conns :
        /\ pc[c] = "writeReplay"
        /\ lastEventID[c] = "a"
        /\ Len(eventQueue) = 2
        /\ eventQueue[1].id = "a"
        /\ events[c] = <<eventQueue[2]>>

\* C6: no response byte is written before the subscriber is registered, and
\* every Send gives its event to every active subscriber or evicts it
C6_RegisteredThenNeverSkipped ==
    /\ [](\A c \in Conns : status[c] = 200 => WasRegistered(c))
    /\ [](\A c \in Conns : pc[c] = "headers" => status[c] = 0 /\ written[c] = <<>>)
    /\ [][IsSend => \A c \in Active : Delivered(c, SentNow) \/ Evicted(c)]_vars

C6_Witness ==
    \E c \in Conns :
        /\ pc[c] = "headers"
        /\ status[c] = 0
        /\ c \in Active
        /\ chanBuf[c] # <<>>

\* C7: the handler never panics (no send on a closed queue, no queue closed twice)
C7_NeverPanics == panicked = NoPanic

\* C8: once Close has returned, every serve routine that registered has exited
C8_CloseWaitsForServeRoutines ==
    closeReturns > 0 =>
        /\ waitGroup = 0
        /\ \A c \in Conns : WasRegistered(c) => pc[c] = "done"

C8_Witness ==
    /\ closeReturns > 0
    /\ \A c \in Conns : WasRegistered(c) /\ pc[c] = "done"

\* C9: once Close has returned, the subscriber set is empty
C9_NoSubscriberAfterClose == closeReturns > 0 => eventChans = {}

\* C10: a connection that finds the handler closed is answered 503 and changes
\* neither the subscriber set nor the wait group
C10_RejectedWhenClosed ==
    /\ [][\A c \in Conns :
            /\ (pc[c] = "register" /\ isClosed /\ pc'[c] # "register") =>
                  /\ pc'[c] = "reject"
                  /\ UNCHANGED <<eventChans, waitGroup, chanBuf, chanClosed>>
            /\ (pc[c] = "reject" /\ pc'[c] # "reject") =>
                  /\ pc'[c] = "done"
                  /\ status'[c] = 503
                  /\ UNCHANGED <<eventChans, waitGroup, chanBuf, chanClosed>>]_vars
    /\ [](\A c \in Conns :
            (pc[c] = "reject" \/ status[c] = 503) =>
                /\ c \notin eventChans
                /\ written[c] = <<>>)

C10_Witness ==
    \E c, d \in Conns :
        /\ status[c] = 503
        /\ pc[c] = "done"
        /\ d \in eventChans
        /\ WasRegistered(d)

InitIdx(c) == {i \in 1..Len(written[c]) : written[c][i][1] = "init"}

\* the serve routine of c has left ServeHTTP after having been registered
ServeEnded(c) == pc[c] = "done" /\ status[c] # 503

\* C11: a subscriber whose peer disconnected while it was in its serve loop is
\* no longer in the subscriber set once its serve routine has ended
C11_DisconnectedThenRemoved ==
    \A c \in Conns : (ctxDone[c] /\ ServeEnded(c)) => c \notin eventChans

\* C12 as stated: on every connection the events of InitFn are written before
\* any replayed event
C12_InitBeforeReplay ==
    \A c \in Conns : \A i \in InitIdx(c), j \in ReplayIdx(c) : i < j

\* the serve routine of c is past the InitFn block (handler.go 125-130)
PastInit(c) ==
    WasRegistered(c) /\ pc[c] \notin {"headers", "lockReplay", "replay", "writeReplay", "init"}

\* C12 amended: the events of InitFn are written, all of them and unfiltered,
\* after the replay batch and before any live event
C12_InitAfterReplayBeforeLive ==
    \A c \in Conns :
        /\ \A i \in ReplayIdx(c), j \in InitIdx(c) : i < j
        /\ \A j \in InitIdx(c), k \in LiveIdx(c) : j < k
        /\ ~PastInit(c) => InitIdx(c) = {} /\ LiveIdx(c) = {}
        /\ PastInit(c) =>
              LET r == Cardinality(ReplayIdx(c))
              IN /\ InitIdx(c) = (r + 1)..(r + Len(cfg.InitFn))
                 /\ \A i \in InitIdx(c) : written[c][i][2] = cfg.InitFn[i - r]

C12_Witness ==
    \E c \in Conns :
        /\ Len(written[c]) = 3
        /\ written[c][1][1] = "replay"
        /\ written[c][2] = <<"init", InitEvent>>
        /\ written[c][3][1] = "live"

\* the filter hook lets e through for the connection c
Accepts(c, e) == cfg.FilterFn.nil \/ <<c, e.id>> \notin cfg.FilterFn.rejects

RECURSIVE PassingOf(_, _)
PassingOf(c, es) ==
    IF es = <<>> THEN <<>>
    ELSE (IF Accepts(c, Head(es)) THEN <<Head(es)>> ELSE <<>>) \o PassingOf(c, Tail(es))

AsReplay(es) == [i \in 1..Len(es) |-> <<"replay", es[i]>>]

\* C13: every live or replayed event written on a connection passed the filter
\* for that connection; a live event the filter rejects is dropped and the
\* routine goes back to its select, still registered, its queue untouched; of
\* a replay batch exactly the events that pass are written, in order
C13_OnlyFilteredEventsWritten ==
    /\ [](\A c \in Conns : \A i \in LiveIdx(c) \cup ReplayIdx(c) :
              Accepts(c, written[c][i][2]))
    /\ [][\A c \in Conns :
            /\ (pc[c] = "write" /\ pc'[c] # "write") =>
                  /\ pc'[c] = "select"
                  /\ written'[c] = IF Accepts(c, recv[c])
                                   THEN Append(written[c], <<"live", recv[c]>>)
                                   ELSE written[c]
                  /\ UNCHANGED <<eventChans, chanClosed, chanBuf, waitGroup>>
            /\ (pc[c] = "writeReplay" /\ pc'[c] # "writeReplay") =>
                  written'[c] = written[c] \o AsReplay(PassingOf(c, events[c]))]_vars

C13_Witness ==
    \E c \in Conns :
        /\ ~cfg.FilterFn.nil
        /\ Len(sent) = 2
        /\ ~Accepts(c, sent[1])
        /\ written[c] = << <<"init", InitEvent>>, <<"live", sent[2]>> >>
        /\ c \in Active

\* the place in the send order of the last event with ID id written to d
ReceivedN(d, id) ==
    MaxOf({0} \cup {written[d][i][2].n : i \in {j \in 1..Len(written[d]) : written[d][j][2].id = id}})

\* d was disconnected by the handler after it was sent an event with the ID
\* that c presents, and that ID is still in the replay window
Resumes(c, d) ==
    /\ d \in endedBefore[c]
    /\ lastEventID[c] # ""
    /\ status[d] = 200
    /\ chanClosed[d]
    /\ ~ctxDone[d]
    /\ ReceivedN(d, lastEventID[c]) > 0
    /\ MatchIdx(eventQueue, lastEventID[c]) # {}

\* C14 as stated: a connection that presents the ID X of an event its client
\* received before the handler disconnected it, X still being in the window,
\* is replayed every event sent after that event
C14_ResumesAfterX ==
    [][\A c, d \in Conns :
          (pc[c] = "replay" /\ pc'[c] # "replay" /\ Resumes(c, d)) =>
              events'[c] = SubSeq(sent, ReceivedN(d, lastEventID[c]) + 1, Len(sent))]_vars

\* C14 amended: the same, provided no event sent after the one received
\* carries the ID X again; the batch is written in order before any live
\* event, less the events the filter of the connection rejects
C14_ResumesAfterLastX ==
    [][\A c, d \in Conns :
          /\ (/\ pc[c] = "replay" /\ pc'[c] # "replay" /\ Resumes(c, d)
              /\ \A k \in 1..Len(sent) :
                    k > ReceivedN(d, lastEventID[c]) => sent[k].id # lastEventID[c]) =>
                 events'[c] = SubSeq(sent, ReceivedN(d, lastEventID[c]) + 1, Len(sent))
          /\ (pc[c] = "writeReplay" /\ pc'[c] # "writeReplay") =>
                 /\ written[c] = <<>>
                 /\ written'[c] = AsReplay(PassingOf(c, events[c]))]_vars

C14_Witness ==
    \E c, d \in Conns :
        /\ pc[c] = "writeReplay"
        /\ Resumes(c, d)
        /\ ~isClosed
        /\ Len(sent) = 2
        /\ ReceivedN(d, lastEventID[c]) = 1
        /\ events[c] = <<sent[2]>>

\* ---- the claims about the client -----------------------------------------

\* lifecycleLoop has returned or is running its deferred calls
Unwinding == clientPc \in {"closeEvents", "closeClosed", "stopped"}

\* connectionLoop is running
InConnection == clientPc \in {"request", "read", "deliver"}

\* C15: Events is closed, and the lifecycle left, only when the context was
\* cancelled or a response had status 204, whatever failed or ended before
C15_EventsOpenUntilTerminal ==
    (eventChanClosed \/ Unwinding) => (ctxCancelled \/ respStatus = 204)

C15_Witness ==
    /\ Len(requests) = 3
    /\ respStatus = 0
    /\ clientPc = "backoff"
    /\ received # <<>>
    /\ reads = 2
    /\ ~ctxCancelled
    /\ ~eventChanClosed

\* C16: once a call of Close has returned the lifecycle goroutine has ended,
\* Events is closed, no event is pending and the consumer receives none,
\* also when an event was given up at the cancellation
C16_CloseReturnsAfterEventsClosed ==
    /\ [](clientCloseReturns > 0 =>
            /\ clientPc = "stopped"
            /\ eventChanClosed
            /\ closedChanClosed
            /\ pendingEvent = <<>>
            /\ ~ENABLED Receive)
    /\ [][clientCloseReturns > 0 => received' = received]_vars

C16_Witness ==
    /\ clientCloseReturns = 1
    /\ dropped = 1
    /\ received = <<>>

C18_NoContentEndsLifecycle ==
    /\ [](respStatus = 204 => Unwinding)
    /\ [][respStatus = 204 => requests' = requests /\ reads' = reads]_vars
    /\ (respStatus = 204 ~> eventChanClosed)

C18_Witness ==
    /\ respStatus = 204
    /\ Len(requests) = 2
    /\ ~ctxCancelled
    /\ eventChanClosed

\* C19: a connection that ends other than by a 204 leads to the backoff, with
\* a reconnection time that is the last non-zero retry value read or the
\* default; the backoff is left for a new call of connectionLoop, or, with the
\* context cancelled, for the end of the lifecycle; not cancelled, the new
\* attempt comes; once cancelled no request is sent and Events gets closed
C19_RetryAfterBackoffUnlessCancelled ==
    /\ [][(InConnection /\ ~InConnection') =>
            IF respStatus' = 204 THEN Unwinding' ELSE clientPc' = "backoff"]_vars
    /\ [](reconnectionTime # 0)
    /\ []((clientPc = "backoff" /\ readerReconnectionTime # 0) =>
            reconnectionTime = readerReconnectionTime)
    /\ [][(clientPc = "backoff" /\ clientPc' # "backoff") =>
            \/ clientPc' = "request"
            \/ ctxCancelled /\ clientPc' = "closeEvents"]_vars
    /\ ((clientPc = "backoff" /\ ~ctxCancelled) ~> (clientPc = "request" \/ ctxCancelled))
    /\ [][ctxCancelled => requests' = requests]_vars
    /\ (ctxCancelled ~> eventChanClosed)

C19_Witness ==
    /\ Len(requests) = 2
    /\ respStatus = 200
    /\ reconnectionTime = 50
    /\ ctxCancelled
    /\ eventChanClosed

\* C20: the request of every attempt carries Last-Event-ID exactly when the
\* reader of the last connection that had one ended with a non-empty
\* LastEventID, and then with that value; the first request carries none
C20_HeaderIsStickyLastEventID ==
    [][requests' # requests =>
          /\ Len(requests') = Len(requests) + 1
          /\ requests'[Len(requests')] =
                IF readerLastEventID # "" THEN <<readerLastEventID>> ELSE <<>>
          /\ requests = <<>> => requests'[1] = <<>>]_vars

C20_Witness ==
    /\ Len(requests) = 3
    /\ requests[1] = <<>>
    /\ requests[2] = <<"a">>
    /\ requests[3] = <<"b">>
    /\ received = <<>>

\* the connection ends with an error and the lifecycle goes to its backoff
EndsInBackoff == InConnection /\ clientPc' = "backoff"

\* C21: whenever a request carries Last-Event-ID, its value is the ID of the
\* last event the consumer received from Events
C21_HeaderIsLastDeliveredID ==
    [][(requests' # requests /\ requests'[Len(requests')] # <<>>) =>
          /\ received # <<>>
          /\ requests'[Len(requests')] = <<received[Len(received)].id>>]_vars

\* C22 as claimed: the interval starts at 3 seconds; a connection that ends
\* in the backoff after a retry field with value N was parsed waits N
\* milliseconds, and one without a parsed retry field leaves the interval alone
C22_WaitIsParsedRetry ==
    /\ reconnectionTime = 3000
    /\ [][EndsInBackoff =>
            reconnectionTime' =
                IF retrySeen' # <<>> THEN retrySeen'[1] ELSE reconnectionTime]_vars

\* C22 amended: as claimed when the last retry value parsed in the attempt is
\* not 0; a last value of 0 leaves the interval alone like no value at all
C22_WaitIsParsedNonZeroRetry ==
    /\ reconnectionTime = 3000
    /\ [][EndsInBackoff =>
            reconnectionTime' =
                IF retrySeen' # <<>> /\ retrySeen'[1] # 0
                THEN retrySeen'[1]
                ELSE reconnectionTime]_vars

\* a second attempt set 50 ms, a third parsed retry 0 and failed: still 50 ms
C22_Witness ==
    /\ clientPc = "backoff"
    /\ Len(requests) = 3
    /\ retrySeen = <<0>>
    /\ reconnectionTime = 50
    /\ ~ctxCancelled

\* ---- the claims about the reader ------------------------------------------

\* the step in which Scan returns a line to NextEvent, and that line
LineRead == readerPc = "scan" /\ HasToken /\ scanBuf' # scanBuf
Line == Split.token
\* the line is a blank line, is a field of the given name
BlankRead == LineRead /\ Line = <<>>
FieldRead(name) == LineRead /\ Line # <<>> /\ Line[1] # ":" /\ FieldOf(Line) = name
\* the step in which NextEvent returns, and its return of an event
Returns == readerPc = "scan" /\ readerPc' = "idle"
ReturnsEvent == Returns /\ ret'[1].kind = "event"
Returned(kind) == readerPc = "idle" /\ ret # <<>> /\ ret[1].kind = kind

\* C23: an event NextEvent returns has the ID the format expects, the value
\* of the last id field without NUL read so far in the session, or the seed;
\* Reader.LastEventID is that id at any time, so that a block without an id
\* field, and an id field with a NUL, leave it as it was
C23_EventIDIsStickyID ==
    /\ [](LastEventID = expect.id)
    /\ [](Returned("event") => ret[1].ID = expect.id)
    /\ [][(LineRead /\ ~(FieldRead(fieldNameID) /\ ~Contains(ValueOf(Line), NUL))) =>
            LastEventID' = LastEventID]_vars

\* the second event of a seeded reader still has the seed for its ID: no id
\* field was read, or only ones with a NUL
C23_Witness ==
    /\ Returned("event")
    /\ calls = 2
    /\ ret[1].ID = <<"0">>

\* C24: a blank line read with no data since the last dispatch returns no
\* event and leaves the sticky id and the reconnection time alone, and the
\* event type set before it is gone: an event of a block that has no event
\* field has Type "message"
C24_BlankWithoutDataDiscardsType ==
    /\ [][(BlankRead /\ expect.data = <<>>) =>
            /\ ~Returns
            /\ LastEventID' = LastEventID
            /\ ReconnectionTime' = ReconnectionTime]_vars
    /\ [][(ReturnsEvent /\ expect.type = <<>>) =>
            ret'[1].Type = defaultMessageType]_vars

\* C25: a blank line read after one or more data lines returns exactly the
\* event of the block: Type the last event field of the block or "message",
\* Data the data values joined by \n, ID the sticky id; no other line
\* returns an event
C25_BlockWithDataGivesItsEvent ==
    /\ [][(BlankRead /\ expect.data # <<>>) =>
            /\ ReturnsEvent
            /\ ret' = <<ReturnEvent(ExpectedEvent(expect)[1].Type,
                                    ExpectedEvent(expect)[1].Data,
                                    ExpectedEvent(expect)[1].ID)>>]_vars
    /\ [][ReturnsEvent => BlankRead /\ expect.data # <<>>]_vars

\* the scanner has seen the end of the body and holds nothing
Exhausted == scanErr # "" /\ scanBuf = <<>>

C27_BadRetryIgnored ==
    /\ [](ReconnectionTime = expect.retry)
    /\ [][FieldRead(fieldNameRetry) =>
            /\ ~Returns
            /\ UNCHANGED <<eventType, eventData, eventID, LastEventID>>
            /\ ReconnectionTime' = IF IsInteger(ValueOf(Line))
                                   THEN IntegerOf(ValueOf(Line))
                                   ELSE ReconnectionTime]_vars
    /\ [](Returned("err") => scanErr = "err")

\* a retry line that is no number is about to be taken, after one that set
\* 10 ms and a data line
C27_Witness ==
    /\ readerPc = "scan"
    /\ HasToken
    /\ FieldOf(Line) = fieldNameRetry
    /\ ~IsInteger(ValueOf(Line))
    /\ ReconnectionTime = 10
    /\ eventData # <<>>

\* the bytes the split function consumed after the token
Separator == Slice(scanBuf, Len(Line), Split.advance)

\* C28: the token the split function returns and the separator it consumes
\* after it are the first bytes of the data, the separator is \r, \n or \r\n
\* (or nothing, for the last token at the end of the input), the token holds
\* neither \r nor \n, the scanner goes on behind the separator, and a read
\* moves bytes from the wire to the scanner as they are
C28_TokensAndSeparatorsAreTheBytes ==
    /\ []((readerPc = "scan" /\ HasToken) =>
            /\ Line \o Separator = SubSeq(scanBuf, 1, Split.advance)
            /\ Len(Line) <= Split.advance
            /\ \/ Separator \in Terminators
               \/ Separator = <<>> /\ scanErr # "" /\ Split.advance = Len(scanBuf)
            /\ ~Contains(Line, CR)
            /\ ~Contains(Line, LF))
    /\ [][LineRead => scanBuf = Line \o Separator \o scanBuf']_vars
    /\ [][(readerPc = "scan" /\ ~LineRead /\ ~Returns) =>
            scanBuf' \o wire' = scanBuf \o wire \/ (wire = <<>> /\ scanBuf' = scanBuf)]_vars

\* the scanner holds x \r \n \r, read in two pieces: the token x with the
\* separator \r\n, and behind it a \r for the next call
C28_Witness ==
    /\ readerPc = "scan"
    /\ scanBuf = <<"x", CR, LF, CR>>
    /\ HasToken
    /\ Separator = <<CR, LF>>

\* C30: the split function, given data that ends with a lone \r and not at
\* the end of the input, consumes nothing and returns no token; a \r takes
\* one byte when the byte after it is not \n or the input has ended, and two
\* when it is \n
C30_LoneCRWaits ==
    (readerPc = "scan" /\ CanSplit /\ IndexAny(scanBuf, {CR, LF}) # -1) =>
        LET eol == IndexAny(scanBuf, {CR, LF})
        IN  IF scanBuf[eol + 1] = LF THEN Split.advance = eol + 1
            ELSE IF eol + 1 = Len(scanBuf)
                 THEN IF scanErr = ""
                      THEN Split.nil /\ Split.advance = 0
                      ELSE Split.advance = eol + 1
                 ELSE IF scanBuf[eol + 2] = LF
                      THEN Split.advance = eol + 2
                      ELSE Split.advance = eol + 1

\* C29: the one event the reader returns for the bytes of an event has the
\* Type, the ID and the Data of that event, and the call after it returns none
C29_RoundTrip ==
    /\ [](Returned("event") =>
            /\ calls = 1
            /\ ret[1].Type = serialized[1].Type
            /\ ret[1].ID = serialized[1].ID
            /\ ret[1].Data = serialized[1].Data)
    /\ []((ret # <<>> /\ calls = 1) => ret[1].kind = "event")
\* what the call of NextEvent numbered n returns when the body is read in one
\* piece: the event numbered n, and after the last the end of the body
OnePieceReturn(n) ==
    IF n <= Len(OnePiece(body).out) THEN OnePiece(body).out[n]
    ELSE IF wireEnd = "EOF" THEN ReturnNil ELSE ReturnErr

\* C31: however the body is cut into reads, each call of NextEvent returns
\* what the call of the same number returns when the body is read in one
\* piece, and at the end of the body Reader.LastEventID and
\* Reader.ReconnectionTime are those of the read in one piece
C31_ChunkingIndependent ==
    [][Returns =>
         /\ ret' = <<OnePieceReturn(calls)>>
         /\ ret'[1].kind # "event" =>
               /\ LastEventID' = OnePiece(body).LastEventID
               /\ ReconnectionTime' = OnePiece(body).ReconnectionTime]_vars

\* ---- the claim about replay and live delivery -----------------------------
\* C32: no connection is written the same sent event twice, as part of its
\* replay batch and again as a live event from its channel
C32_NoEventWrittenTwice ==
    \A c \in Conns :
        \A i, j \in ReplayIdx(c) \cup LiveIdx(c) :
            i # j => written[c][i][2] # written[c][j][2]
====
